---- MODULE Spec2Model ----
(***************************************************************************)
(* Intent settlement engine of OctWa-Intents-API: deposit submission       *)
(* (solver.ts), liquidity-gated payout dispatch, the periodic expiry and   *)
(* retry sweep, the SQLite-backed intent store (db.ts) and the virtual     *)
(* constant-product reserves of the price oracle (oracle.ts).              *)
(*                                                                         *)
(* Node.js runs one callback at a time: the code between two awaits is one *)
(* atomic step.  Every await (chain fetch, balance probe, payout send) is  *)
(* a point where other callbacks interleave.  Amounts are fixed-point      *)
(* integers; a division rounds down where the code divides doubles.        *)
(***************************************************************************)
EXTENDS Integers, Sequences, FiniteSets, Bags, TLC

\* --------------------------------------------------------------------------
\* Bounds of the model
\* --------------------------------------------------------------------------
\* submissions that may be in progress at once (concurrent HTTP requests)
MaxProcs == 2
\* sweep cycles that may overlap (setInterval does not wait for the callback)
MaxSweeps == 2
\* rows the intent table may hold before new submissions stop
MaxIntents == 2
\* last value of the wall clock
MaxTime == 3
\* swaps recorded on the oracle when it is driven on its own
MaxSwaps == 3
\* TWAP data points held when the oracle is driven on its own
MaxPoints == 4
\* sendOCT / sendETH calls that may be running at once
MaxSends == 2
\* last nonce the escrow account may reach on the Octra chain
MaxNonce == 2

\* --------------------------------------------------------------------------
\* Program constants
\* --------------------------------------------------------------------------
\* SQL NULL / JS undefined of an optional numeric column
Null == -1
\* JS undefined in a field declared string
Undefined == "undefined"
\* a string held in a field declared number, a number held in a field
\* declared string (JSON carries either in any field)
StringValue == -2
NumberValue == "[number]"
\* config.feeBps
FEE_BPS == 50
\* LIQUIDITY_BUFFER = 1.1, kept as the fraction BUFFER_NUM / BUFFER_DEN
BUFFER_NUM == 11
BUFFER_DEN == 10
\* virtual reserves the oracle is constructed with (environment configuration)
VIRTUAL_OCT_RESERVE == 30000
VIRTUAL_ETH_RESERVE == 30000
\* Prices are doubles in the code; here a price is held in units of
\* 1 / PRICE_SCALE, and the clock counts units of five minutes.
PRICE_SCALE == 10000
\* ORACLE_INITIAL_RATE: the price of the initial reserves
INITIAL_RATE == 10000
\* EMA_ALPHA = 0.1, kept as the fraction EMA_ALPHA_NUM / EMA_ALPHA_DEN
EMA_ALPHA_NUM == 1
EMA_ALPHA_DEN == 10
\* ORACLE_TWAP_WINDOW_MINUTES, in clock units
TWAP_WINDOW_MS == 1
\* ORACLE_MAX_PRICE_CHANGE_PERCENT
MAX_PRICE_CHANGE_PERCENT == 10
\* ORACLE_MIN_RATE_PERCENT, ORACLE_MAX_RATE_PERCENT (environment configuration)
MIN_RATE_PERCENT == 90
MAX_RATE_PERCENT == 110
\* delay of the circuit breaker's reset timer (5 * 60 * 1000 ms), in clock units
BREAKER_RESET_MS == 1
\* waitForOctraConfirmation: timeoutMs and pollIntervalMs, in poll intervals
\* (the code's 120 s and 5 s give 24 polls)
CONFIRM_TIMEOUT_MS == 3
POLL_INTERVAL_MS == 1

OctraEscrow == "octra1escrow"
SepoliaEscrow == "0xescrow"

VARIABLES
  now,          \* Date.now()
  intents,      \* table intents, in insertion order; intentId = position
  nonces,       \* table nonces
  reserves,     \* oracle.reserves
  volumeHistory,\* oracle.volumeHistory: one entry per recordSwap
  procs,        \* submissions suspended at an await, with their locals (a bag)
  sweeps,       \* sweep cycles suspended at a balance probe, with their locals (a bag)
  tasks,        \* payout dispatches awaiting sendETH / sendOCT (a bag)
  payouts,      \* confirmed payout transactions on the counter-chains
  response,     \* the SubmitResponse returned last, with its deposit reference
  envelope,     \* the envelope handed to a verifier called on its own
  verified,     \* what that verifier returned
  spotPrice,    \* oracle.spotPrice
  emaPrice,     \* oracle.emaPrice
  twapDataPoints, \* oracle.twapDataPoints
  circuitBreakerActive, \* oracle.circuitBreakerActive
  timers,       \* due times of the pending circuit breaker resets (a bag)
  preTradeEma,  \* history: emaPrice before the swap that last tripped the breaker
  rate,         \* what getRate returned, until the oracle is called again
  priceHistory, \* oracle.priceHistory
  oracle_history, \* table oracle_history, in insertion order
  returned,     \* what another getter of the oracle returned, until it is called again
  sends,        \* the sendOCT / sendETH calls, each at its await
  currentNonce, \* octra.ts currentNonce, shared by every sendOCT
  chainNonce    \* the escrow account's nonce as the Octra node reports it

verifierVars == <<envelope, verified>>

sendVars == <<sends, currentNonce, chainNonce>>

\* the oracle's price tracking; reserves and volumeHistory are its other fields
priceVars == <<spotPrice, emaPrice, twapDataPoints, circuitBreakerActive, timers, preTradeEma, rate,
               priceHistory, oracle_history, returned>>

vars == <<now, intents, nonces, reserves, volumeHistory, procs, sweeps, tasks, payouts, response,
          envelope, verified, spotPrice, emaPrice, twapDataPoints, circuitBreakerActive,
          timers, preTradeEma, rate, priceHistory, oracle_history, returned, sends,
          currentNonce, chainNonce>>

Max(a, b) == IF a >= b THEN a ELSE b

\* --------------------------------------------------------------------------
\* Envelope hashing (crypto.ts) and the deposits the chains hold
\* --------------------------------------------------------------------------
\* SHA-256 of JSON.stringify(payload): the digest is determined by the
\* serialized field values and differs when any of them differs.
hashPayload(p) ==
  <<p.version, p.intentType, p.fromAsset, p.toAsset, p.amountIn, p.minAmountOut,
    p.targetChain, p.targetAddress, p.expiry, p.nonce>>

verifyPayloadHash(p, expectedHash) == hashPayload(p) = expectedHash

NoHash == <<>>

Payload(from, to, amountIn, minOut, chain, addr, expiry, nonce) ==
  [version |-> 1, intentType |-> "swap", fromAsset |-> from, toAsset |-> to,
   amountIn |-> amountIn, minAmountOut |-> minOut, targetChain |-> chain,
   targetAddress |-> addr, expiry |-> expiry, nonce |-> nonce]

\* An envelope is held as the object its text decodes to (hex, Base64 and JSON
\* undone); raw tells whether the text decodes ("json"), does not
\* ("malformed") or is absent ("empty").
\* an envelope whose hash was computed over the payload it carries
Sealed(p) == [raw |-> "json", payload |-> p, hash |-> hashPayload(p)]
\* an envelope whose payload was altered after hashing (minAmountOut lowered)
Tampered(p) ==
  [raw |-> "json", payload |-> [p EXCEPT !.minAmountOut = 0], hash |-> hashPayload(p)]
\* a legacy envelope without hash, or the bare payload (envelope.payload ||
\* envelope): the verifiers read the same fields from either
Legacy(p) == [raw |-> "json", payload |-> p, hash |-> NoHash]

OctPayload(minOut, expiry, nonce) ==
  Payload("OCT", "ETH", 1200, minOut, "ethereum_sepolia", "0xa", expiry, nonce)
EthPayload(minOut, expiry, nonce) ==
  Payload("ETH", "OCT", 1200, minOut, "octra_mainnet", "octb", expiry, nonce)

\* The deposits the two chains hold, by transaction hash.  o3 is unconfirmed,
\* o4 carries a payload of another version, e4 went to another address and e5
\* carries no value.
OctraTxs == {"o1", "o2", "o3", "o4"}
SepoliaTxs == {"e1", "e2", "e3", "e4", "e5"}
TxHashes == OctraTxs \cup SepoliaTxs

\* fetchOctraTransaction: the transaction an Octra hash resolves to
OctraChain(h) ==
  CASE h = "o1" -> [from |-> "octu", to |-> OctraEscrow, amount |-> 1200, status |-> "confirmed",
                    message |-> Sealed(OctPayload(1140, 2, "n1"))]
    [] h = "o2" -> [from |-> "octu", to |-> OctraEscrow, amount |-> 1200, status |-> "confirmed",
                    message |-> Tampered(OctPayload(1140, 2, "n2"))]
    [] h = "o3" -> [from |-> "octu", to |-> OctraEscrow, amount |-> 1200, status |-> "pending",
                    message |-> Sealed(OctPayload(1140, 2, "n5"))]
    [] h = "o4" -> [from |-> "octu", to |-> OctraEscrow, amount |-> 1200, status |-> "confirmed",
                    message |-> Sealed([OctPayload(1140, 2, "n6") EXCEPT !.version = 2])]

\* fetchSepoliaTransaction: the transaction a Sepolia hash resolves to
SepoliaChain(h) ==
  CASE h = "e1" -> [from |-> "0xu", to |-> SepoliaEscrow, value |-> 1200, status |-> "confirmed",
                    input |-> Sealed(EthPayload(1140, 2, "n1"))]
    [] h = "e2" -> [from |-> "0xu", to |-> SepoliaEscrow, value |-> 1200, status |-> "confirmed",
                    input |-> Legacy(EthPayload(1140, 3, "n3"))]
    [] h = "e3" -> [from |-> "0xu", to |-> SepoliaEscrow, value |-> 1200, status |-> "confirmed",
                    input |-> Tampered(EthPayload(1140, 2, "n4"))]
    [] h = "e4" -> [from |-> "0xu", to |-> "0xother", value |-> 1200, status |-> "confirmed",
                    input |-> Sealed(EthPayload(1140, 2, "n7"))]
    [] h = "e5" -> [from |-> "0xu", to |-> SepoliaEscrow, value |-> 0, status |-> "confirmed",
                    input |-> Sealed(EthPayload(0, 2, "n8"))]

\* balances a fresh probe of a custodial account may report
Balances == {0, 1200, 2000, 30000}

\* --------------------------------------------------------------------------
\* Price oracle: virtual constant-product reserves (oracle.ts)
\* --------------------------------------------------------------------------
\* the ETH output left as the formula gives it
calculateEthOutUnclamped(r, octAmount, feeBps) ==
  LET grossEthOut == r.ethReserve - r.k \div (r.octReserve + octAmount)
  IN grossEthOut - (grossEthOut * feeBps) \div 10000

\* calculateEthOut on reserves r
calculateEthOut(r, octAmount, feeBps) ==
  LET newOctReserve == r.octReserve + octAmount
      newEthReserve == r.k \div newOctReserve
      grossEthOut == r.ethReserve - newEthReserve
      fee == (grossEthOut * feeBps) \div 10000
      netEthOut == grossEthOut - fee
  IN Max(0, netEthOut)

\* calculateOctOut on reserves r
calculateOctOut(r, ethAmount, feeBps) ==
  LET newEthReserve == r.ethReserve + ethAmount
      newOctReserve == r.k \div newEthReserve
      grossOctOut == r.octReserve - newOctReserve
      fee == (grossOctOut * feeBps) \div 10000
      netOctOut == grossOctOut - fee
  IN Max(0, netOctOut)

\* reserves after a trade that recomputes k from them
SwapReservesNewK(r, direction, amount) ==
  IF direction = "OCT_TO_ETH"
  THEN [octReserve |-> r.octReserve + amount,
        ethReserve |-> r.ethReserve - calculateEthOut(r, amount, FEE_BPS),
        k |-> (r.octReserve + amount) * (r.ethReserve - calculateEthOut(r, amount, FEE_BPS))]
  ELSE [ethReserve |-> r.ethReserve + amount,
        octReserve |-> r.octReserve - calculateOctOut(r, amount, FEE_BPS),
        k |-> (r.ethReserve + amount) * (r.octReserve - calculateOctOut(r, amount, FEE_BPS))]

\* recordSwap, first part: the reserves after the trade.  k is kept.
SwapReserves(r, direction, amount) ==
  IF direction = "OCT_TO_ETH"
  THEN [r EXCEPT !.octReserve = @ + amount,
                 !.ethReserve = @ - calculateEthOut(r, amount, 0)]
  ELSE [r EXCEPT !.ethReserve = @ + amount,
                 !.octReserve = @ - calculateOctOut(r, amount, 0)]

\* recordSwap: the entry pushed on volumeHistory
SwapVolume(r, direction, amount) ==
  IF direction = "OCT_TO_ETH"
  THEN [octAmount |-> amount, direction |-> direction]
  ELSE [octAmount |-> calculateOctOut(r, amount, 0), direction |-> direction]

\* CONFIG.minRate, CONFIG.maxRate
minRate == (INITIAL_RATE * MIN_RATE_PERCENT) \div 100
maxRate == (INITIAL_RATE * MAX_RATE_PERCENT) \div 100

\* calculateSpotPrice: ethReserve / octReserve
calculateSpotPrice(r) == (r.ethReserve * PRICE_SCALE) \div r.octReserve

\* updateEMA: alpha * spot + (1 - alpha) * ema
updateEMA(ema, spot) == (EMA_ALPHA_NUM * spot + (EMA_ALPHA_DEN - EMA_ALPHA_NUM) * ema) \div EMA_ALPHA_DEN

\* updateTWAP at time t: the last point gets its weight, the current price
\* is pushed, points older than the window are dropped
updateTWAP(points, spot, t) ==
  LET weighted == IF Len(points) > 0
                  THEN [points EXCEPT ![Len(points)].weight = t - points[Len(points)].timestamp]
                  ELSE points
      pushed == Append(weighted, [price |-> spot, timestamp |-> t, weight |-> 0])
      InWindow(dp) == dp.timestamp >= t - TWAP_WINDOW_MS
      kept == SelectSeq(pushed, InWindow)
  IN IF Len(kept) = 0 THEN <<[price |-> spot, timestamp |-> t, weight |-> 0]>> ELSE kept

\* the loop of calculateTWAP from point i on
RECURSIVE TwapSums(_, _)
TwapSums(points, i) ==
  IF i > Len(points) THEN [weightedSum |-> 0, totalWeight |-> 0]
  ELSE LET rest == TwapSums(points, i + 1)
           dp == points[i]
       IN IF dp.weight > 0
          THEN [weightedSum |-> rest.weightedSum + dp.price * dp.weight,
                totalWeight |-> rest.totalWeight + dp.weight]
          ELSE rest

\* calculateTWAP
calculateTWAP(points, spot) ==
  IF Len(points) = 0 THEN spot
  ELSE LET sums == TwapSums(points, 1)
       IN IF sums.totalWeight = 0 THEN spot
          ELSE sums.weightedSum \div sums.totalWeight

\* an effective price that always blends
getEffectivePriceBlended(points, spot, ema, active) ==
  (7 * ema + 3 * calculateTWAP(points, spot)) \div 10

\* getEffectivePrice: TWAP while the circuit breaker is active, else
\* 0.7 * EMA + 0.3 * TWAP
getEffectivePrice(points, spot, ema, active) ==
  LET twap == calculateTWAP(points, spot)
  IN IF active THEN twap ELSE (7 * ema + 3 * twap) \div 10

\* Math.sqrt, rounded down, by bisection
RECURSIVE SqrtBetween(_, _, _)
SqrtBetween(n, lo, hi) ==
  IF lo >= hi THEN lo
  ELSE LET mid == (lo + hi + 1) \div 2
       IN IF mid * mid <= n THEN SqrtBetween(n, mid, hi) ELSE SqrtBetween(n, lo, mid - 1)
sqrt(n) == SqrtBetween(n, 0, 46340)

\* a price left as it is
BoundedNever(price) == price

\* Math.max(minRate, Math.min(maxRate, price))
Bounded(price) == IF price < minRate THEN minRate ELSE IF price > maxRate THEN maxRate ELSE price

\* applyPriceBounds on the reserves: rewritten when the spot price was
\* bounded, octReserve = sqrt(k / price), ethReserve = sqrt(k * price)
BoundedReserves(r, spot) ==
  IF Bounded(spot) = spot THEN r
  ELSE [r EXCEPT !.octReserve = sqrt((r.k \div Bounded(spot)) * PRICE_SCALE),
                 !.ethReserve = sqrt((r.k \div PRICE_SCALE) * Bounded(spot))]

\* records kept in priceHistory: 1000 in the source, scaled so that the
\* swaps of a run fill the history
MAX_PRICE_HISTORY == 2

\* Array.prototype.slice(-n): the last n elements; slice(-0) is slice(0),
\* the whole array, and a negative n drops the first -n elements
sliceLast(arr, n) ==
  LET start == IF n > 0 THEN Max(Len(arr) - n, 0)
               ELSE IF -n < Len(arr) THEN -n ELSE Len(arr)
  IN SubSeq(arr, start + 1, Len(arr))

\* db.addOracleRate(rate) at time t
addOracleRate(table, price, t) == Append(table, [rate |-> price, timestamp |-> t])

\* a recordPrice that keeps every record in memory
recordPriceUncapped(history, table, price, t, reason, volume, direction) ==
  [priceHistory |-> Append(history, [rate |-> price, timestamp |-> t, reason |-> reason,
                                     volume |-> volume, direction |-> direction]),
   oracle_history |-> IF reason # "initial" THEN addOracleRate(table, price, t) ELSE table]

\* recordPrice at time t on the in-memory history and the table: the record
\* is pushed, persisted unless it is the initial one, and the last
\* MAX_PRICE_HISTORY records are kept in memory
recordPrice(history, table, price, t, reason, volume, direction) ==
  LET pushed == Append(history, [rate |-> price, timestamp |-> t, reason |-> reason,
                                 volume |-> volume, direction |-> direction])
  IN [priceHistory |-> IF Len(pushed) > MAX_PRICE_HISTORY
                       THEN sliceLast(pushed, MAX_PRICE_HISTORY) ELSE pushed,
      oracle_history |-> IF reason # "initial" THEN addOracleRate(table, price, t) ELSE table]

\* priceChange > CONFIG.maxPriceChangePercent
ExceedsMaxChange(spot, oldSpot) ==
  (IF spot >= oldSpot THEN spot - oldSpot ELSE oldSpot - spot) * 100
    > MAX_PRICE_CHANGE_PERCENT * oldSpot

\* recordSwap at time t on the oracle o (a record of its fields): reserves
\* and volume, the spot price, the circuit breaker (which puts the spot
\* price back to the EMA and starts its reset timer), EMA, TWAP, bounds.
\* Volume entries are dropped after 24 hours, beyond the clock's range.
recordSwap(o, direction, amount, t) ==
  LET oldSpot == o.spotPrice
      swapped == SwapReserves(o.reserves, direction, amount)
      moved == calculateSpotPrice(swapped)
      tripped == ExceedsMaxChange(moved, oldSpot)
      spot == IF tripped THEN o.emaPrice ELSE moved
      ema == updateEMA(o.emaPrice, spot)
      recorded == recordPrice(o.priceHistory, o.oracle_history, Bounded(spot), t, "swap",
                              amount, direction)
  IN [reserves |-> BoundedReserves(swapped, spot),
      volumeHistory |-> Append(o.volumeHistory, SwapVolume(o.reserves, direction, amount)),
      spotPrice |-> Bounded(spot),
      emaPrice |-> Bounded(ema),
      twapDataPoints |-> updateTWAP(o.twapDataPoints, spot, t),
      circuitBreakerActive |-> o.circuitBreakerActive \/ tripped,
      timers |-> IF tripped THEN o.timers (+) SetToBag({t + BREAKER_RESET_MS}) ELSE o.timers,
      preTradeEma |-> IF tripped THEN o.emaPrice ELSE o.preTradeEma,
      priceHistory |-> recorded.priceHistory,
      oracle_history |-> recorded.oracle_history]

\* --------------------------------------------------------------------------
\* Intent store (store.ts over db.ts)
\* --------------------------------------------------------------------------
\* x || null of a numeric column value
OrNull(x) == IF x = 0 \/ x = Null THEN Null ELSE x

\* db.addIntent: one INSERT; intent_id is the only key of the table
addIntent(rows, intent) ==
  Append(rows, [intent EXCEPT !.targetTxHash = OrNull(@), !.amountOut = OrNull(@),
                              !.fulfilledAt = OrNull(@)])

\* db.addNonce: INSERT OR IGNORE
addNonce(ns, nonce) == ns \cup {nonce}

\* a lookup that finds no nonce
isNonceUsedNever(ns, nonce) == FALSE

\* db.isNonceUsed
isNonceUsed(ns, nonce) == nonce \in ns

\* db.getIntent: the row of an id, or none
HasIntent(rows, id) == id \in DOMAIN rows

\* a lookup by deposit reference that matches no row
TxHashRowsNone(rows, txHash) == {}

\* db.getIntentByTxHash: stmt.get returns the first matching row
TxHashRows(rows, txHash) == {i \in DOMAIN rows : rows[i].sourceTxHash = txHash}
getIntentByTxHash(rows, txHash) ==
  CHOOSE i \in TxHashRows(rows, txHash) : \A j \in TxHashRows(rows, txHash) : i <= j

\* an update that also clears the expiry column
updateIntentClearingExpiry(rows, id, updates) ==
  IF ~HasIntent(rows, id) THEN rows
  ELSE [rows EXCEPT ![id] = [f \in DOMAIN rows[id] |->
                               IF f \in DOMAIN updates THEN updates[f]
                               ELSE IF f = "expiry" THEN 0 ELSE rows[id][f]]]

\* db.updateIntent: merge the updates into the row read, write the five
\* mutable columns
updateIntent(rows, id, updates) ==
  IF ~HasIntent(rows, id) THEN rows
  ELSE LET existing == rows[id]
           updated == [f \in DOMAIN existing |->
                         IF f \in DOMAIN updates THEN updates[f] ELSE existing[f]]
       IN [rows EXCEPT ![id] = [existing EXCEPT
              !.targetTxHash = OrNull(updated.targetTxHash),
              !.amountOut = OrNull(updated.amountOut),
              !.status = updated.status,
              !.fulfilledAt = OrNull(updated.fulfilledAt)]]

\* SELECT ... WHERE status = ? ORDER BY created_at ASC, as a list of ids
RECURSIVE IdsWithStatus(_, _, _)
IdsWithStatus(rows, status, from) ==
  IF from > Len(rows) THEN <<>>
  ELSE (IF rows[from].status = status THEN <<from>> ELSE <<>>)
         \o IdsWithStatus(rows, status, from + 1)

getOpenIntents(rows) == IdsWithStatus(rows, "OPEN", 1)
getPendingIntents(rows) == IdsWithStatus(rows, "PENDING", 1)

\* --------------------------------------------------------------------------
\* Deposit validation (octra.ts, crypto.ts, solver.ts)
\* --------------------------------------------------------------------------
NoPayload == [version |-> 0]

\* addresses matching /^0x[a-fA-F0-9]{40}$/
EvmAddresses == {"0xa"}

\* typeof v === 'number', typeof v === 'string', and !!v of a string field
IsNumber(v) == v \notin {Null, StringValue}
IsString(v) == v \notin {Undefined, NumberValue}
Truthy(v) == v \notin {Undefined, ""}

\* a text that does not decode, and no text at all
Unparseable == [raw |-> "malformed", payload |-> NoPayload, hash |-> NoHash]
EmptyInput == [raw |-> "empty", payload |-> NoPayload, hash |-> NoHash]

\* octra.ts parseIntentPayload: payload = parsed.payload || parsed, then the
\* field checks.  The envelope's hash is not read.
parseIntentPayload(message) ==
  IF message.raw # "json" THEN NoPayload
  ELSE LET payload == message.payload
       IN IF \/ payload.version # 1
             \/ payload.intentType # "swap"
             \/ payload.fromAsset # "OCT"
             \/ payload.toAsset # "ETH"
             \/ ~IsNumber(payload.amountIn)
             \/ ~IsNumber(payload.minAmountOut)
             \/ payload.targetChain # "ethereum_sepolia"
             \/ ~IsString(payload.targetAddress)
             \/ ~IsNumber(payload.expiry)
             \/ ~IsString(payload.nonce)
          THEN NoPayload
          ELSE payload

\* octra.ts validateIntentPayload at time t: "valid" or the error
validateIntentPayload(payload, tx, escrowAddress, t) ==
  IF tx.to # escrowAddress THEN "Transaction not sent to escrow address"
  ELSE IF tx.amount # payload.amountIn THEN "Transaction amount does not match intent"
  ELSE IF t > payload.expiry THEN "Intent has expired"
  ELSE IF payload.targetAddress \notin EvmAddresses THEN "Invalid target EVM address format"
  ELSE "valid"

\* a verifier that checks a hash whether the envelope declares one or not
HasHashAlways(hash) == TRUE

\* if (hash): the envelope declares a hash
HasHash(hash) == hash # NoHash

\* crypto.ts parseAndVerifyOctraEnvelope: the hash, when present, is checked
\* over the payload as it was received; the payload is returned as received
parseAndVerifyOctraEnvelope(message) ==
  IF message.raw # "json"
  THEN [valid |-> FALSE, error |-> "Failed to parse envelope"]
  ELSE LET payload == message.payload
           hash == message.hash
       IN IF HasHash(hash) /\ ~verifyPayloadHash(payload, hash)
          THEN [valid |-> FALSE, error |-> "Payload hash mismatch - data may have been tampered"]
          ELSE [valid |-> TRUE, error |-> "", payload |-> payload]

\* x || d of a string field
OrDefault(x, d) == IF Truthy(x) THEN x ELSE d

\* crypto.ts parseAndVerifyEvmEnvelope: the hash, when present, is checked
\* over the payload rebuilt field by field (version and intentType set,
\* assets and chain defaulted); then four fields are checked
parseAndVerifyEvmEnvelope(txInput) ==
  IF txInput.raw = "empty" THEN [valid |-> FALSE, error |-> "No payload in tx.input"]
  ELSE IF txInput.raw # "json" THEN [valid |-> FALSE, error |-> "Failed to parse EVM envelope"]
  ELSE
  LET payload == txInput.payload
      hash == txInput.hash
      fullPayload == Payload(OrDefault(payload.fromAsset, "ETH"),
                             OrDefault(payload.toAsset, "OCT"), payload.amountIn,
                             payload.minAmountOut,
                             OrDefault(payload.targetChain, "octra_mainnet"),
                             payload.targetAddress, payload.expiry, payload.nonce)
  IN IF HasHash(hash) /\ ~verifyPayloadHash(fullPayload, hash)
     THEN [valid |-> FALSE, error |-> "Payload hash mismatch - data may have been tampered"]
     ELSE IF \/ ~Truthy(payload.targetAddress)
             \/ ~IsNumber(payload.minAmountOut)
             \/ ~IsNumber(payload.expiry)
             \/ ~Truthy(payload.nonce)
     THEN [valid |-> FALSE, error |-> "Invalid payload structure"]
     ELSE [valid |-> TRUE, error |-> "",
           payload |-> [targetAddress |-> payload.targetAddress,
                        minAmountOut |-> payload.minAmountOut,
                        expiry |-> payload.expiry, nonce |-> payload.nonce]]

\* targetAddress.startsWith('oct')
OctraAddresses == {"octb"}

\* processOctToEthSubmission steps 2-6 on the fetched transaction: the
\* rejection message, or "ok".  A message the code completes with the
\* offending values is kept by its fixed text.
OctToEthChecks(tx, ns, r, t) ==
  IF tx.status # "confirmed" THEN "Transaction not confirmed"
  ELSE LET payload == parseIntentPayload(tx.message)
       IN IF payload = NoPayload THEN "Invalid intent payload in transaction"
          ELSE IF validateIntentPayload(payload, tx, OctraEscrow, t) # "valid"
               THEN validateIntentPayload(payload, tx, OctraEscrow, t)
          ELSE IF isNonceUsed(ns, payload.nonce) THEN "Nonce already used"
          ELSE IF calculateEthOut(r, payload.amountIn, FEE_BPS) < payload.minAmountOut
               THEN "Output below minimum"
          ELSE "ok"

\* processEthToOctSubmission steps 2-9 on the fetched transaction
EthToOctChecks(tx, ns, r, t) ==
  IF tx.status # "confirmed" THEN "Transaction not confirmed"
  ELSE IF tx.to # SepoliaEscrow THEN "Transaction not sent to ETH escrow"
  ELSE LET verifyResult == parseAndVerifyEvmEnvelope(tx.input)
       IN IF ~verifyResult.valid THEN verifyResult.error
          ELSE LET intentData == verifyResult.payload
               IN IF intentData.targetAddress \notin OctraAddresses
                  THEN "Invalid Octra address format"
                  ELSE IF t > intentData.expiry THEN "Intent has expired"
                  ELSE IF isNonceUsed(ns, intentData.nonce) THEN "Nonce already used"
                  ELSE IF tx.value <= 0 THEN "Invalid ETH amount"
                  ELSE IF calculateOctOut(r, tx.value, FEE_BPS) < intentData.minAmountOut
                       THEN "Output below minimum"
                  ELSE "ok"

SubmissionChecks(h, ns, r, t) ==
  IF h \in OctraTxs THEN OctToEthChecks(OctraChain(h), ns, r, t)
  ELSE EthToOctChecks(SepoliaChain(h), ns, r, t)

\* the output quoted for the deposit (step 6 / step 9)
QuoteFor(h, r) ==
  IF h \in OctraTxs
  THEN calculateEthOut(r, parseIntentPayload(OctraChain(h).message).amountIn, FEE_BPS)
  ELSE calculateOctOut(r, SepoliaChain(h).value, FEE_BPS)

\* a liquidity test without the buffer
hasLiquidityUnbuffered(balance, out) == balance >= out

\* hasLiquidity: balance >= out * LIQUIDITY_BUFFER
hasLiquidity(balance, out) == balance * BUFFER_DEN >= out * BUFFER_NUM

\* the Intent object of step 7 / step 10.  createdAt is not kept: rows are
\* stored in creation order, which is the order ORDER BY created_at reads.
NewIntent(h, liquid) ==
  IF h \in OctraTxs
  THEN LET tx == OctraChain(h)
           payload == parseIntentPayload(tx.message)
       IN [direction |-> "OCT_TO_ETH", sourceAddress |-> tx.from, sourceTxHash |-> h,
           amountIn |-> payload.amountIn, targetAddress |-> payload.targetAddress,
           targetTxHash |-> Null, amountOut |-> Null,
           minAmountOut |-> payload.minAmountOut,
           status |-> IF liquid THEN "OPEN" ELSE "PENDING",
           expiry |-> payload.expiry, fulfilledAt |-> Null,
           payload |-> payload]
  ELSE LET tx == SepoliaChain(h)
           intentData == parseAndVerifyEvmEnvelope(tx.input).payload
       IN [direction |-> "ETH_TO_OCT", sourceAddress |-> tx.from, sourceTxHash |-> h,
           amountIn |-> tx.value, targetAddress |-> intentData.targetAddress,
           targetTxHash |-> Null, amountOut |-> Null,
           minAmountOut |-> intentData.minAmountOut,
           status |-> IF liquid THEN "OPEN" ELSE "PENDING",
           expiry |-> intentData.expiry, fulfilledAt |-> Null,
           payload |-> Payload("ETH", "OCT", tx.value, intentData.minAmountOut,
                               "octra_mainnet", intentData.targetAddress,
                               intentData.expiry, intentData.nonce)]

\* --------------------------------------------------------------------------
\* Payout dispatch (solver.ts fulfillOctToEth / fulfillEthToOct)
\* --------------------------------------------------------------------------
\* a dispatch start that does not look at the clock
FulfillStartUnchecked(rows, tks, intentId, out, t) ==
  IF ~HasIntent(rows, intentId) \/ rows[intentId].status \notin {"OPEN", "PENDING"}
  THEN [rows |-> rows, tasks |-> tks]
  ELSE [rows |-> rows,
        tasks |-> tks (+) SetToBag({[intentId |-> intentId, out |-> out,
                                     direction |-> rows[intentId].direction,
                                     amountIn |-> rows[intentId].amountIn]})]

\* a dispatch start that waits for the dispatches in flight to finish
FulfillStartExclusive(rows, tks, intentId, out, t) ==
  IF tks # EmptyBag THEN [rows |-> rows, tasks |-> tks]
  ELSE FulfillStartUnchecked(rows, tks, intentId, out, t)

\* The part of fulfill* before its await: the status guard, the expiry
\* check at the current time t, then the send is started.  Yields the table
\* and the dispatches in flight.
FulfillStart(rows, tks, intentId, out, t) ==
  IF ~HasIntent(rows, intentId) \/ rows[intentId].status \notin {"OPEN", "PENDING"}
  THEN [rows |-> rows, tasks |-> tks]
  ELSE IF t > rows[intentId].expiry
  THEN [rows |-> updateIntent(rows, intentId, [status |-> "EXPIRED"]), tasks |-> tks]
  ELSE [rows |-> rows,
        tasks |-> tks (+) SetToBag({[intentId |-> intentId, out |-> out,
                                     direction |-> rows[intentId].direction,
                                     amountIn |-> rows[intentId].amountIn]})]

\* the amount fulfill* hands to oracle.recordSwap
RecordedAmount(task) ==
  IF task.direction = "OCT_TO_ETH" THEN task.amountIn ELSE task.out

\* a completion that records the payout but leaves the status as it is
FulfillSuccessKeepsStatus(rows, task, txHash, t) ==
  updateIntent(rows, task.intentId,
               [targetTxHash |-> txHash, amountOut |-> task.out, fulfilledAt |-> t])

\* The part of fulfill* after the await, on a confirmed send
FulfillSuccess(rows, task, txHash, t) ==
  updateIntent(rows, task.intentId,
               [status |-> "FULFILLED", targetTxHash |-> txHash,
                amountOut |-> task.out, fulfilledAt |-> t])

\* --------------------------------------------------------------------------
\* Sweep (solver.ts startExpiryChecker)
\* --------------------------------------------------------------------------
\* a first loop that expires nothing
ExpireOpenNever(rows, openIntents, k, cycleNow) == rows

\* first loop of a cycle: every OPEN intent past its expiry becomes EXPIRED
RECURSIVE ExpireOpen(_, _, _, _)
ExpireOpen(rows, openIntents, k, cycleNow) ==
  IF k > Len(openIntents) THEN rows
  ELSE ExpireOpen(IF cycleNow > rows[openIntents[k]].expiry
                  THEN updateIntent(rows, openIntents[k], [status |-> "EXPIRED"])
                  ELSE rows,
                  openIntents, k + 1, cycleNow)

\* second loop, from position k up to its next await: pending intents past
\* their expiry become EXPIRED; the loop stops at the first one that is not
\* (its balance probe is awaited) or at the end of the list
RECURSIVE RetryLoop(_, _, _, _)
RetryLoop(rows, pendingIntents, k, cycleNow) ==
  IF k > Len(pendingIntents) THEN [rows |-> rows, k |-> k]
  ELSE IF cycleNow > rows[pendingIntents[k]].expiry
  THEN RetryLoop(updateIntent(rows, pendingIntents[k], [status |-> "EXPIRED"]),
                 pendingIntents, k + 1, cycleNow)
  ELSE [rows |-> rows, k |-> k]

\* the output the retry loop computes for an intent before probing
RetryQuote(intent, r) ==
  IF intent.direction = "OCT_TO_ETH"
  THEN calculateEthOut(r, intent.amountIn, FEE_BPS)
  ELSE calculateOctOut(r, intent.amountIn, FEE_BPS)

\* a bag with one more / one less copy of x
BagAdd(b, x) == b (+) SetToBag({x})
BagRemove(b, x) == b (-) SetToBag({x})

\* the cycles suspended after the retry loop ran from loop state ls: the
\* cycle awaits the probe of the intent it stopped at, or has ended
SweepAfter(sws, ls, cycleNow, pendingIntents, r) ==
  IF ls.k > Len(pendingIntents) THEN sws
  ELSE BagAdd(sws, [now |-> cycleNow, pendingIntents |-> pendingIntents, k |-> ls.k,
                    out |-> RetryQuote(ls.rows[pendingIntents[ls.k]], r)])

\* a submission that answers REJECTED whatever it did
ResponseAlwaysRejected(h, intentId, status, message) ==
  [txHash |-> h, intentId |-> intentId, status |-> "REJECTED", message |-> message]

Response(h, intentId, status, message) ==
  [txHash |-> h, intentId |-> intentId, status |-> status, message |-> message]

NoResponse == Response("", 0, "", "")

\* no verifier has been called on the envelope
Unverified == [by |-> "", result |-> [valid |-> FALSE, error |-> ""]]

\* --------------------------------------------------------------------------
\* State machine
\* --------------------------------------------------------------------------
\* the send calls that may be running at once
SendIds == 1..MaxSends

\* no send is running in this place
Idle == [kind |-> "none", pc |-> "idle", elapsed |-> 0, initialEpoch |-> FALSE, success |-> FALSE,
         txNonce |-> 0]

\* the oracle's fields as one record, and the step that stores such a record
Oracle ==
  [reserves |-> reserves, volumeHistory |-> volumeHistory, spotPrice |-> spotPrice,
   emaPrice |-> emaPrice, twapDataPoints |-> twapDataPoints,
   circuitBreakerActive |-> circuitBreakerActive, timers |-> timers,
   preTradeEma |-> preTradeEma, priceHistory |-> priceHistory,
   oracle_history |-> oracle_history]

\* no getter has returned since the oracle last changed
NoReturn == [call |-> "none"]

OracleBecomes(o) ==
  /\ reserves' = o.reserves
  /\ volumeHistory' = o.volumeHistory
  /\ spotPrice' = o.spotPrice
  /\ emaPrice' = o.emaPrice
  /\ twapDataPoints' = o.twapDataPoints
  /\ circuitBreakerActive' = o.circuitBreakerActive
  /\ timers' = o.timers
  /\ preTradeEma' = o.preTradeEma
  /\ rate' = Null
  /\ priceHistory' = o.priceHistory
  /\ oracle_history' = o.oracle_history
  /\ returned' = NoReturn

SolverInit ==
  /\ now = 1
  /\ intents = <<>>
  /\ nonces = {}
  /\ reserves = [octReserve |-> VIRTUAL_OCT_RESERVE, ethReserve |-> VIRTUAL_ETH_RESERVE,
                 k |-> VIRTUAL_OCT_RESERVE * VIRTUAL_ETH_RESERVE]
  /\ volumeHistory = <<>>
  /\ procs = EmptyBag
  /\ sweeps = EmptyBag
  /\ tasks = EmptyBag
  /\ payouts = <<>>
  /\ response = NoResponse
  /\ spotPrice = (VIRTUAL_ETH_RESERVE * PRICE_SCALE) \div VIRTUAL_OCT_RESERVE
  /\ emaPrice = (VIRTUAL_ETH_RESERVE * PRICE_SCALE) \div VIRTUAL_OCT_RESERVE
  /\ twapDataPoints = <<[price |-> (VIRTUAL_ETH_RESERVE * PRICE_SCALE) \div VIRTUAL_OCT_RESERVE,
                         timestamp |-> 1, weight |-> 0]>>
  /\ circuitBreakerActive = FALSE
  /\ timers = EmptyBag
  /\ preTradeEma = Null
  /\ rate = Null
  /\ \E recorded \in {recordPrice(<<>>, <<>>,
                                   (VIRTUAL_ETH_RESERVE * PRICE_SCALE) \div VIRTUAL_OCT_RESERVE,
                                   1, "initial", Null, Undefined)} :
       /\ priceHistory = recorded.priceHistory
       /\ oracle_history = recorded.oracle_history
  /\ returned = NoReturn
  /\ sends = [s \in SendIds |-> Idle]
  /\ currentNonce = 0
  /\ chainNonce = 0

Init ==
  /\ SolverInit
  /\ envelope = EmptyInput
  /\ verified = Unverified

\* time passes; a reset timer that is due fires first
Tick ==
  /\ response = NoResponse
  /\ now < MaxTime
  /\ \A due \in BagToSet(timers) : now < due
  /\ now' = now + 1
  /\ UNCHANGED <<intents, nonces, reserves, volumeHistory, procs, sweeps, tasks, payouts, response>>
  /\ UNCHANGED <<verifierVars, priceVars, sendVars>>

\* process*Submission up to its first await: the dedup lookup
SubmitStart(h) ==
  /\ response = NoResponse
  /\ BagCardinality(procs) < MaxProcs
  /\ IF TxHashRows(intents, h) # {}
     THEN LET existing == getIntentByTxHash(intents, h)
          IN /\ response' = Response(h, existing, intents[existing].status,
                                     "Intent already submitted")
             /\ UNCHANGED procs
     ELSE /\ Len(intents) + BagCardinality(procs) < MaxIntents
          /\ procs' = BagAdd(procs, [pc |-> "fetch", h |-> h, out |-> 0])
          /\ UNCHANGED response
  /\ UNCHANGED <<now, intents, nonces, reserves, volumeHistory, sweeps, tasks, payouts>>
  /\ UNCHANGED <<verifierVars, priceVars, sendVars>>

\* the chain fetch returned: the validation steps run up to the balance probe
SubmitFetched(proc, found) ==
  /\ response = NoResponse
  /\ BagIn(proc, procs)
  /\ proc.pc = "fetch"
  /\ LET h == proc.h
         verdict == IF found THEN SubmissionChecks(h, nonces, reserves, now)
                    ELSE IF h \in OctraTxs THEN "Transaction not found on Octra chain"
                    ELSE "Transaction not found on Sepolia"
     IN IF verdict = "ok"
        THEN /\ procs' = BagAdd(BagRemove(procs, proc),
                                [pc |-> "probe", h |-> h, out |-> QuoteFor(h, reserves)])
             /\ UNCHANGED response
        ELSE /\ procs' = BagRemove(procs, proc)
             /\ response' = Response(h, 0, "REJECTED", verdict)
  /\ UNCHANGED <<now, intents, nonces, reserves, volumeHistory, sweeps, tasks, payouts>>
  /\ UNCHANGED <<verifierVars, priceVars, sendVars>>

\* the balance probe returned: the intent is stored, its nonce recorded and,
\* with liquidity, the payout started
SubmitProbed(proc, balance) ==
  /\ response = NoResponse
  /\ BagIn(proc, procs)
  /\ proc.pc = "probe"
  /\ LET h == proc.h
         out == proc.out
         liquid == hasLiquidity(balance, out)
         intent == NewIntent(h, liquid)
         \* quotedOut is a history field: the output quoted for the deposit,
         \* which the code keeps only in the submission's local ethOut / octOut
         added == addIntent(intents, intent @@ [quotedOut |-> out])
         intentId == Len(added)
         started == IF liquid THEN FulfillStart(added, tasks, intentId, out, now)
                    ELSE [rows |-> added, tasks |-> tasks]
     IN /\ intents' = started.rows
        /\ tasks' = started.tasks
        /\ nonces' = addNonce(nonces, intent.payload.nonce)
        /\ procs' = BagRemove(procs, proc)
        /\ response' = Response(h, intentId, intent.status,
                                IF liquid THEN "Intent submitted, fulfillment in progress"
                                ELSE "Intent queued - waiting for liquidity")
  /\ UNCHANGED <<now, reserves, volumeHistory, sweeps, payouts>>
  /\ UNCHANGED <<verifierVars, priceVars, sendVars>>

\* The response reaches the caller.  A submission step that returns leaves
\* its SubmitResponse in response; it is handed over before any other
\* callback runs.
SubmitReturn ==
  /\ response # NoResponse
  /\ response' = NoResponse
  /\ UNCHANGED <<now, intents, nonces, reserves, volumeHistory, procs, sweeps, tasks, payouts>>
  /\ UNCHANGED <<verifierVars, priceVars, sendVars>>

\* a completion that stores FAILED when the send did not succeed
DispatchDoneMarksFailed(task, success) ==
  /\ response = NoResponse
  /\ BagIn(task, tasks)
  /\ tasks' = BagRemove(tasks, task)
  /\ IF success
     THEN /\ intents' = FulfillSuccess(intents, task, Len(payouts) + 1, now)
          /\ payouts' = Append(payouts, [intentId |-> task.intentId, amount |-> task.out,
                                         direction |-> task.direction])
          /\ \E recorded \in {recordSwap(Oracle, task.direction, RecordedAmount(task), now)} :
               OracleBecomes(recorded)
     ELSE /\ intents' = updateIntent(intents, task.intentId, [status |-> "FAILED"])
          /\ UNCHANGED <<payouts, reserves, volumeHistory, priceVars>>
  /\ UNCHANGED <<now, nonces, procs, sweeps, response>>
  /\ UNCHANGED <<verifierVars, sendVars>>

\* sendETH / sendOCT returned for a dispatch in flight
DispatchDone(task, success) ==
  /\ response = NoResponse
  /\ BagIn(task, tasks)
  /\ tasks' = BagRemove(tasks, task)
  /\ IF success
     THEN /\ intents' = FulfillSuccess(intents, task, Len(payouts) + 1, now)
          /\ payouts' = Append(payouts, [intentId |-> task.intentId, amount |-> task.out,
                                         direction |-> task.direction])
          /\ \E recorded \in {recordSwap(Oracle, task.direction, RecordedAmount(task), now)} :
               OracleBecomes(recorded)
     ELSE UNCHANGED <<intents, payouts, reserves, volumeHistory, priceVars>>
  /\ UNCHANGED <<now, nonces, procs, sweeps, response>>
  /\ UNCHANGED <<verifierVars, sendVars>>

\* a sweep cycle fires: the expiry pass, then the retry loop up to its first
\* balance probe
SweepBegin ==
  /\ response = NoResponse
  /\ BagCardinality(sweeps) < MaxSweeps
  /\ \E expired \in {ExpireOpen(intents, getOpenIntents(intents), 1, now)} :
       \E pendingIntents \in {getPendingIntents(expired)} :
         \E ls \in {RetryLoop(expired, pendingIntents, 1, now)} :
           /\ intents' = ls.rows
           /\ sweeps' = SweepAfter(sweeps, ls, now, pendingIntents, reserves)
  /\ UNCHANGED <<now, nonces, reserves, volumeHistory, procs, tasks, payouts, response>>
  /\ UNCHANGED <<verifierVars, priceVars, sendVars>>

\* the balance probe of a cycle returned: with liquidity the intent is set
\* OPEN and its payout started; the loop then runs to its next probe
SweepProbed(sw, balance) ==
  /\ response = NoResponse
  /\ BagIn(sw, sweeps)
  /\ LET intentId == sw.pendingIntents[sw.k]
         started == IF hasLiquidity(balance, sw.out)
                    THEN FulfillStart(updateIntent(intents, intentId, [status |-> "OPEN"]),
                                      tasks, intentId, sw.out, now)
                    ELSE [rows |-> intents, tasks |-> tasks]
         ls == RetryLoop(started.rows, sw.pendingIntents, sw.k + 1, sw.now)
     IN /\ intents' = ls.rows
        /\ tasks' = started.tasks
        /\ sweeps' = SweepAfter(BagRemove(sweeps, sw), ls, sw.now, sw.pendingIntents, reserves)
  /\ UNCHANGED <<now, nonces, reserves, volumeHistory, procs, payouts, response>>
  /\ UNCHANGED <<verifierVars, priceVars, sendVars>>

Next ==
  \/ Tick
  \/ \E h \in TxHashes : SubmitStart(h)
  \/ \E proc \in BagToSet(procs), found \in BOOLEAN : SubmitFetched(proc, found)
  \/ \E proc \in BagToSet(procs), balance \in Balances : SubmitProbed(proc, balance)
  \/ SubmitReturn
  \/ \E task \in BagToSet(tasks), success \in BOOLEAN : DispatchDone(task, success)
  \/ SweepBegin
  \/ \E sw \in BagToSet(sweeps), balance \in Balances : SweepProbed(sw, balance)

Spec == Init /\ [][Next]_vars

\* --------------------------------------------------------------------------
\* The sweep as the timer schedules it when a cycle ends before the next fires
\* --------------------------------------------------------------------------
\* the timer fires with no earlier cycle still awaiting a probe
SweepTimer ==
  /\ sweeps = EmptyBag
  /\ SweepBegin

NextSerial ==
  \/ Tick
  \/ \E h \in TxHashes : SubmitStart(h)
  \/ \E proc \in BagToSet(procs), found \in BOOLEAN : SubmitFetched(proc, found)
  \/ \E proc \in BagToSet(procs), balance \in Balances : SubmitProbed(proc, balance)
  \/ SubmitReturn
  \/ \E task \in BagToSet(tasks), success \in BOOLEAN : DispatchDone(task, success)
  \/ SweepTimer
  \/ \E sw \in BagToSet(sweeps), balance \in Balances : SweepProbed(sw, balance)

\* setInterval keeps firing whatever the request traffic; an awaited probe or
\* send returns; a response is handed to its caller.  The clock and the
\* arrival of submissions are not forced.
Fairness ==
  /\ SF_vars(SweepTimer)
  /\ SF_vars(\E sw \in BagToSet(sweeps), balance \in Balances : SweepProbed(sw, balance))
  /\ SF_vars(\E task \in BagToSet(tasks), success \in BOOLEAN : DispatchDone(task, success))
  /\ WF_vars(SubmitReturn)

FairSpec == Init /\ [][NextSerial]_vars /\ Fairness

\* The same schedule with the wall clock advancing whatever the request
\* traffic, and nothing asked of the payout dispatches: a send may fail,
\* succeed or never return.
ExpiryFairness ==
  /\ SF_vars(Tick)
  /\ SF_vars(SweepTimer)
  /\ SF_vars(\E sw \in BagToSet(sweeps), balance \in Balances : SweepProbed(sw, balance))
  /\ WF_vars(SubmitReturn)

ExpirySpec == Init /\ [][NextSerial]_vars /\ ExpiryFairness

\* --------------------------------------------------------------------------
\* Observations on a state
\* --------------------------------------------------------------------------
IntentIds == 1..MaxIntents

\* the envelope a deposit carries (Octra message / Sepolia tx.input)
Envelope(h) == IF h \in OctraTxs THEN OctraChain(h).message ELSE SepoliaChain(h).input

\* the nonce of the payload a deposit carries
DepositNonce(h) == Envelope(h).payload.nonce

\* a payout dispatch for the intent is awaiting its send
InFlight(id) == \E task \in BagToSet(tasks) : task.intentId = id

\* the number of payout dispatches for the intent awaiting their send
DispatchCount(id) ==
  LET mine == {task \in BagToSet(tasks) : task.intentId = id}
  IN BagCardinality([task \in mine |-> CopiesIn(task, tasks)])

\* a sweep cycle is awaiting the balance probe it made for the intent
Probing(id) == \E sw \in BagToSet(sweeps) : sw.pendingIntents[sw.k] = id

\* the confirmed payout transactions sent for the intent
PayoutsOf(id) == {n \in DOMAIN payouts : payouts[n].intentId = id}

HasStatus(id, status) == id \in DOMAIN intents /\ intents[id].status = status

\* --------------------------------------------------------------------------
\* Properties
\* --------------------------------------------------------------------------

\* C1: in every reachable state no two stored intents have the same
\* sourceTxHash, whatever the interleaving of the submissions.
C1_UniqueSourceTxHash ==
  \A i, j \in DOMAIN intents : i # j => intents[i].sourceTxHash # intents[j].sourceTxHash

\* C2: once an intent's status is FULFILLED or EXPIRED no step changes it.
C2_TerminalStatusIsFinal ==
  [][\A id \in DOMAIN intents :
       intents[id].status \in {"FULFILLED", "EXPIRED"}
         => intents'[id].status = intents[id].status]_vars

\* C3: at most one payout is confirmed for an intent, and recordSwap has run
\* no more often than there are intents that were written FULFILLED.
C3_FulfilledAtMostOnce ==
  /\ \A id \in DOMAIN intents : Cardinality(PayoutsOf(id)) <= 1
  /\ Len(volumeHistory) <= Cardinality({id \in DOMAIN intents : intents[id].targetTxHash # Null})

\* C5: no intent row exists for a deposit whose envelope carries a hash
\* that differs from the hash of its payload, in either direction.
C5_TamperedEnvelopeRejected ==
  \A id \in DOMAIN intents :
    LET carried == Envelope(intents[id].sourceTxHash)
    IN carried.hash = NoHash \/ verifyPayloadHash(carried.payload, carried.hash)

\* C10: no intent is FULFILLED at a time later than its expiry.
C10_NoFulfilmentAfterExpiry ==
  \A id \in DOMAIN intents :
    intents[id].status = "FULFILLED" => intents[id].fulfilledAt <= intents[id].expiry

\* the verdict of the validation steps other than the nonce lookup
VerdictWithoutNonce(h) == SubmissionChecks(h, {}, reserves, now)

\* C4: a submission, of either direction, whose payload nonce is in the
\* nonce set when its deposit is validated is rejected and creates no row;
\* when the checks that come before the nonce lookup pass, the rejection is
\* 'Nonce already used'.
C4_UsedNonceRejected ==
  [][\A proc \in BagToSet(procs) :
       (SubmitFetched(proc, TRUE) /\ DepositNonce(proc.h) \in nonces)
         => /\ response'.status = "REJECTED"
            /\ response'.txHash = proc.h
            /\ intents' = intents
            /\ tasks' = tasks
            /\ BagCardinality(procs') = BagCardinality(procs) - 1
            /\ VerdictWithoutNonce(proc.h) \in {"ok", "Output below minimum", "Invalid ETH amount"}
                 => response'.message = "Nonce already used"]_vars

\* C4 witness: an ETH->OCT submission is answered 'Nonce already used'
\* because a stored OCT->ETH intent carries its nonce.
C4_Witness ==
  /\ response.message = "Nonce already used"
  /\ response.txHash \in SepoliaTxs
  /\ \E id \in DOMAIN intents :
       /\ intents[id].direction = "OCT_TO_ETH"
       /\ intents[id].payload.nonce = DepositNonce(response.txHash)

\* the intent is OPEN and unexpired with no dispatch in flight for it
Stalled(id) ==
  /\ HasStatus(id, "OPEN")
  /\ now <= intents[id].expiry
  /\ ~InFlight(id)

\* C6: after a failed dispatch the intent keeps its status and, while it is
\* unexpired, a later sweep cycle dispatches for it again.
C6_FailedDispatchRetried ==
  \A id \in IntentIds : Stalled(id) ~> ~Stalled(id)

\* C7: the intent is created OPEN exactly when the probed balance is at
\* least 1.1 times the quoted output and PENDING otherwise; a dispatch is
\* started at creation only for an intent created OPEN, and for a stored row.
C7_CreationStatus ==
  [][\A proc \in BagToSet(procs), balance \in Balances :
       SubmitProbed(proc, balance)
         => LET id == Len(intents) + 1
                sufficient == balance * 10 >= proc.out * 11
            IN /\ response'.intentId = id
               /\ response'.status = IF sufficient THEN "OPEN" ELSE "PENDING"
               /\ Len(intents') = id
               /\ intents'[id].sourceTxHash = proc.h
               /\ intents'[id].status \in {response'.status, "EXPIRED"}
               /\ ~sufficient => intents'[id].status = "PENDING" /\ tasks' = tasks
               /\ \A other \in DOMAIN intents : DispatchCount(other)' = DispatchCount(other)
               /\ DispatchCount(id)' <= 1
               /\ DispatchCount(id)' = 1 => sufficient /\ intents'[id].status = "OPEN"]_vars

\* C7 witness: a submission has just been answered OPEN, its row is stored
\* and its payout is in flight.
C7_Witness ==
  /\ response.message = "Intent submitted, fulfillment in progress"
  /\ response.status = "OPEN"
  /\ HasStatus(response.intentId, "OPEN")
  /\ InFlight(response.intentId)

\* C8: a sweep probe that finds the buffered balance for an unexpired PENDING
\* intent sets it OPEN and starts its payout; a payout that succeeds sets
\* the intent FULFILLED; and while sweeps keep running every PENDING intent
\* is probed again (or leaves PENDING) and every payout in flight returns.
C8_PendingFulfilledBySweep ==
  /\ [][\A sw \in BagToSet(sweeps), balance \in Balances :
          LET id == sw.pendingIntents[sw.k]
          IN (/\ SweepProbed(sw, balance)
              /\ balance * 10 >= sw.out * 11
              /\ intents[id].status = "PENDING"
              /\ now <= intents[id].expiry)
               => /\ intents'[id].status = "OPEN"
                  /\ DispatchCount(id)' = DispatchCount(id) + 1]_vars
  /\ [][\A task \in BagToSet(tasks) :
          DispatchDone(task, TRUE) => intents'[task.intentId].status = "FULFILLED"]_vars
  /\ \A id \in IntentIds :
       HasStatus(id, "PENDING") ~> (Probing(id) \/ ~HasStatus(id, "PENDING"))
  /\ \A id \in IntentIds : InFlight(id) ~> ~InFlight(id)

\* C8 witness: a cycle that is still running has passed an intent of its
\* pending list, and that intent is FULFILLED.
C8_Witness ==
  \E sw \in BagToSet(sweeps) :
    /\ sw.k > 1
    /\ HasStatus(sw.pendingIntents[1], "FULFILLED")

\* C9: a PENDING intent past its expiry is set EXPIRED by the sweep and no
\* payout is dispatched for it: no dispatch starts for an intent after its
\* expiry, a PENDING intent has none in flight, and a cycle probes the
\* balance only for an intent that passed the cycle's expiry check.
C9_PendingExpires ==
  /\ [][\A id \in DOMAIN intents :
          now > intents[id].expiry => DispatchCount(id)' <= DispatchCount(id)]_vars
  /\ [](\A id \in DOMAIN intents : intents[id].status = "PENDING" => ~InFlight(id))
  /\ [](\A sw \in BagToSet(sweeps) : sw.now <= intents[sw.pendingIntents[sw.k]].expiry)
  /\ \A id \in IntentIds :
       (HasStatus(id, "PENDING") /\ now > intents[id].expiry) ~> HasStatus(id, "EXPIRED")

\* C9 witness: a cycle that began after the expiry of the first intent of
\* its pending list has set it EXPIRED and is probing for the next one; no
\* payout was sent for the expired intent.
C9_Witness ==
  \E sw \in BagToSet(sweeps) :
    /\ sw.k > 1
    /\ HasStatus(sw.pendingIntents[1], "EXPIRED")
    /\ sw.now > intents[sw.pendingIntents[1]].expiry
    /\ PayoutsOf(sw.pendingIntents[1]) = {}

\* the three fulfilment columns of a row that are set
FulfilmentFieldsSet(row) ==
  {f \in {"targetTxHash", "amountOut", "fulfilledAt"} : row[f] # Null}

\* C11: an intent has targetTxHash, amountOut and fulfilledAt set exactly
\* when its status is FULFILLED (all three or none), and a step never
\* writes them for a row that has them already.
C11_FulfilmentFieldsIffFulfilled ==
  /\ [](\A id \in DOMAIN intents :
          FulfilmentFieldsSet(intents[id]) =
            IF intents[id].status = "FULFILLED"
            THEN {"targetTxHash", "amountOut", "fulfilledAt"} ELSE {})
  /\ [][\A id \in DOMAIN intents :
          FulfilmentFieldsSet(intents[id]) # {}
            => /\ intents'[id].targetTxHash = intents[id].targetTxHash
               /\ intents'[id].amountOut = intents[id].amountOut
               /\ intents'[id].fulfilledAt = intents[id].fulfilledAt]_vars

\* the rows stored for a deposit reference
RowsOf(h) == {id \in DOMAIN intents : intents[id].sourceTxHash = h}

\* C12: a submission of a deposit reference that has a row returns the id
\* and the current status of its earliest row and changes nothing else: no
\* row, no nonce, no fetch or validation in progress, no dispatch; and the
\* earliest row of a deposit reference stays the same row, so every later
\* submission is answered with the same intentId.
C12_DedupReturnsExisting ==
  /\ [][\A h \in TxHashes :
          (SubmitStart(h) /\ RowsOf(h) # {})
            => /\ response'.txHash = h
               /\ response'.intentId \in RowsOf(h)
               /\ \A id \in RowsOf(h) : response'.intentId <= id
               /\ response'.status = intents[response'.intentId].status
               /\ UNCHANGED <<now, intents, nonces, reserves, volumeHistory,
                              procs, sweeps, tasks, payouts>>]_vars
  /\ [][\A h \in TxHashes :
          RowsOf(h) # {} => /\ RowsOf(h) \subseteq RowsOf(h)'
                            /\ \A id \in RowsOf(h)' \ RowsOf(h) :
                                 \A first \in RowsOf(h) : first < id]_vars

\* C12 witness: a deposit whose intent has meanwhile been fulfilled is
\* submitted again and answered with that row and the status FULFILLED.
C12_Witness ==
  /\ response.message = "Intent already submitted"
  /\ response.status = "FULFILLED"
  /\ HasStatus(response.intentId, "FULFILLED")
  /\ intents[response.intentId].sourceTxHash = response.txHash

\* C13: the amount a dispatch sends for an intent, and the amountOut
\* recorded on fulfilment, is the output quoted when the intent was created.
C13_SweepUsesOriginalQuote ==
  /\ \A task \in BagToSet(tasks) : task.out = intents[task.intentId].quotedOut
  /\ \A id \in DOMAIN intents :
       intents[id].status = "FULFILLED" => intents[id].amountOut = intents[id].quotedOut

\* C14: a submission step that answers REJECTED, whatever the validation
\* step that refused it, changes no stored state: no intent row is added or
\* rewritten, no nonce is recorded, no payout is dispatched or sent, and the
\* oracle's reserves and volume history stay as they were.
C14_RejectionChangesNothing ==
  [][response'.status = "REJECTED"
       => UNCHANGED <<intents, nonces, tasks, payouts, reserves, volumeHistory, sweeps>>]_vars

\* a deposit refused for its output, after an earlier swap moved the price
C14_Witness ==
  /\ response.status = "REJECTED"
  /\ response.message = "Output below minimum"
  /\ response.intentId = 0
  /\ Len(payouts) > 0
  /\ RowsOf(response.txHash) = {}

\* --------------------------------------------------------------------------
\* The oracle called on its own (oracle.ts)
\* --------------------------------------------------------------------------
\* amounts of the swaps recorded
SwapAmounts == {1200, 6000}

storeVars == <<intents, nonces, procs, sweeps, tasks, payouts, response>>

\* oracle.recordSwap(direction, amount)
RecordSwap(direction, amount) ==
  /\ Len(volumeHistory) < MaxSwaps
  /\ Len(twapDataPoints) < MaxPoints
  /\ \E recorded \in {recordSwap(Oracle, direction, amount, now)} : OracleBecomes(recorded)
  /\ UNCHANGED <<now, storeVars, verifierVars, sendVars>>

\* oracle.getRate()
GetRate ==
  /\ Len(twapDataPoints) < MaxPoints
  /\ twapDataPoints' = updateTWAP(twapDataPoints, spotPrice, now)
  /\ rate' = getEffectivePrice(twapDataPoints', spotPrice, emaPrice, circuitBreakerActive)
  /\ returned' = NoReturn
  /\ UNCHANGED <<now, reserves, volumeHistory, spotPrice, emaPrice, circuitBreakerActive,
                 timers, preTradeEma, priceHistory, oracle_history, storeVars, verifierVars, sendVars>>

\* the setTimeout callback of triggerCircuitBreaker
BreakerReset(due) ==
  /\ BagIn(due, timers)
  /\ due <= now
  /\ circuitBreakerActive' = FALSE
  /\ timers' = BagRemove(timers, due)
  /\ rate' = Null
  /\ returned' = NoReturn
  /\ UNCHANGED <<now, reserves, volumeHistory, spotPrice, emaPrice, twapDataPoints,
                 preTradeEma, priceHistory, oracle_history, storeVars, verifierVars, sendVars>>

OracleNext ==
  \/ Tick
  \/ \E direction \in {"OCT_TO_ETH", "ETH_TO_OCT"}, amount \in SwapAmounts :
       RecordSwap(direction, amount)
  \/ GetRate
  \/ \E due \in BagToSet(timers) : BreakerReset(due)

OracleSpec == Init /\ [][OracleNext]_vars

\* --------------------------------------------------------------------------
\* The oracle's getters and quote functions called on their own (oracle.ts)
\* --------------------------------------------------------------------------
\* amounts quoted, fees in basis points, history limits asked for
QuoteAmounts == {0, 1, 1200, 6000}
QuoteFees == {0, FEE_BPS, 10000}
HistoryLimits == {0, 1, 2, 5}

\* a getter returns r (a number in value, a structure in a field of its
\* own); what it does to the TWAP data points is its own
Returns(r) ==
  /\ returned' = r
  /\ rate' = Null
  /\ UNCHANGED <<now, reserves, volumeHistory, spotPrice, emaPrice, circuitBreakerActive,
                 timers, preTradeEma, priceHistory, oracle_history, storeVars, verifierVars, sendVars>>

\* oracle.calculateEthOut(octAmount, feeBps)
CalculateEthOut(octAmount, feeBps) ==
  /\ Returns([call |-> "calculateEthOut", amountIn |-> octAmount, feeBps |-> feeBps,
              value |-> calculateEthOut(reserves, octAmount, feeBps)])
  /\ UNCHANGED twapDataPoints

\* oracle.calculateOctOut(ethAmount, feeBps)
CalculateOctOut(ethAmount, feeBps) ==
  /\ Returns([call |-> "calculateOctOut", amountIn |-> ethAmount, feeBps |-> feeBps,
              value |-> calculateOctOut(reserves, ethAmount, feeBps)])
  /\ UNCHANGED twapDataPoints

\* calculatePriceImpact: prices in units of 1 / PRICE_SCALE, the impact in
\* hundredths of a percent; a division by a zero output (Infinity) is Null
calculatePriceImpact(r, spot, direction, amount) ==
  IF direction = "OCT_TO_ETH"
  THEN LET ethOut == calculateEthOut(r, amount, 0)
           effectivePrice == (ethOut * PRICE_SCALE) \div amount
       IN [priceImpactPercent |-> ((spot - effectivePrice) * 10000) \div spot,
           effectivePrice |-> effectivePrice, spotPrice |-> spot]
  ELSE LET octOut == calculateOctOut(r, amount, 0)
           effectivePrice == IF octOut = 0 THEN Null ELSE (amount * PRICE_SCALE) \div octOut
       IN [priceImpactPercent |-> IF octOut = 0 THEN Null
                                  ELSE ((effectivePrice - spot) * 10000) \div spot,
           effectivePrice |-> effectivePrice, spotPrice |-> spot]

\* oracle.calculatePriceImpact(direction, amount)
CalculatePriceImpact(direction, amount) ==
  /\ Returns([call |-> "calculatePriceImpact", direction |-> direction, amountIn |-> amount,
              impact |-> calculatePriceImpact(reserves, spotPrice, direction, amount)])
  /\ UNCHANGED twapDataPoints

\* oracle.getInverseRate(): 1 / getEffectivePrice(), in units of 1 / PRICE_SCALE
GetInverseRate ==
  /\ Returns([call |-> "getInverseRate",
              value |-> (PRICE_SCALE * PRICE_SCALE)
                          \div getEffectivePrice(twapDataPoints, spotPrice, emaPrice,
                                                 circuitBreakerActive)])
  /\ UNCHANGED twapDataPoints

\* oracle.getPrices()
GetPrices ==
  /\ Len(twapDataPoints) < MaxPoints
  /\ twapDataPoints' = updateTWAP(twapDataPoints, spotPrice, now)
  /\ Returns([call |-> "getPrices",
              prices |-> [spot |-> spotPrice, ema |-> emaPrice,
                          twap |-> calculateTWAP(twapDataPoints', spotPrice),
                          effective |-> getEffectivePrice(twapDataPoints', spotPrice, emaPrice,
                                                          circuitBreakerActive)]])

\* getVolume24h: the OCT volume per direction (no entry is older than 24 hours)
RECURSIVE getVolume24h(_, _)
getVolume24h(history, i) ==
  IF i > Len(history) THEN [octToEth |-> 0, ethToOct |-> 0, totalOct |-> 0]
  ELSE LET rest == getVolume24h(history, i + 1)
           v == history[i]
       IN IF v.direction = "OCT_TO_ETH"
          THEN [rest EXCEPT !.octToEth = @ + v.octAmount, !.totalOct = @ + v.octAmount]
          ELSE [rest EXCEPT !.ethToOct = @ + v.octAmount, !.totalOct = @ + v.octAmount]

\* oracle.getStats(), without the ETH/USD figures fetched from outside; the
\* deviation in hundredths of a percent
GetStats ==
  /\ Len(twapDataPoints) < MaxPoints
  /\ twapDataPoints' = updateTWAP(twapDataPoints, spotPrice, now)
  /\ \E twap \in {calculateTWAP(twapDataPoints', spotPrice)} :
       Returns([call |-> "getStats",
                stats |-> [spotPrice |-> spotPrice, emaPrice |-> emaPrice, twapPrice |-> twap,
                           virtualReserves |-> reserves, minRate |-> minRate,
                           maxRate |-> maxRate,
                           volume24h |-> getVolume24h(volumeHistory, 1),
                           priceDeviation |-> ((IF spotPrice >= twap THEN spotPrice - twap
                                                ELSE twap - spotPrice) * 10000) \div twap,
                           circuitBreakerActive |-> circuitBreakerActive]])

\* getHistory on the records held
getHistory(history, limit) == sliceLast(history, limit)

\* oracle.getHistory(limit)
GetHistory(limit) ==
  /\ Returns([call |-> "getHistory", limit |-> limit,
              records |-> getHistory(priceHistory, limit)])
  /\ UNCHANGED twapDataPoints

\* any of the calls that only read and compute
Getter ==
  \/ GetRate
  \/ GetInverseRate
  \/ GetPrices
  \/ GetStats
  \/ \E limit \in HistoryLimits : GetHistory(limit)
  \/ \E amount \in QuoteAmounts, feeBps \in QuoteFees : CalculateEthOut(amount, feeBps)
  \/ \E amount \in QuoteAmounts, feeBps \in QuoteFees : CalculateOctOut(amount, feeBps)
  \/ \E direction \in {"OCT_TO_ETH", "ETH_TO_OCT"}, amount \in QuoteAmounts \ {0} :
       CalculatePriceImpact(direction, amount)

QuoteNext ==
  \/ \E direction \in {"OCT_TO_ETH", "ETH_TO_OCT"}, amount \in SwapAmounts :
       RecordSwap(direction, amount)
  \/ Getter

QuoteSpec == Init /\ [][QuoteNext]_vars

\* --------------------------------------------------------------------------
\* Payout sends (octra.ts sendOCT, sepolia.ts sendETH)
\* --------------------------------------------------------------------------
\* the send in place s moves to record r, with the values given for
\* currentNonce and for the account's nonce on the chain
SendBecomesWith(s, r, nonce, onChain) ==
  /\ sends' = [sends EXCEPT ![s] = r]
  /\ currentNonce' = nonce
  /\ chainNonce' = onChain
  /\ UNCHANGED <<now, reserves, volumeHistory, storeVars, verifierVars, priceVars>>

\* the send in place s moves to record r; nothing else changes
SendBecomes(s, r) == SendBecomesWith(s, r, currentNonce, chainNonce)

\* the call returns { success }
Returned(send, success) == [send EXCEPT !.pc = "returned", !.success = success]

\* sendOCT(toAddress, amount): the address check, then refreshNonce is awaited
SendOCT(s, toAddress) ==
  /\ sends[s].pc = "idle"
  /\ chainNonce < MaxNonce
  /\ LET send == [Idle EXCEPT !.kind = "OCT"]
     IN IF toAddress \notin OctraAddresses
        THEN SendBecomes(s, Returned(send, FALSE))
        ELSE SendBecomes(s, [send EXCEPT !.pc = "refreshNonce"])

\* refreshNonce returned: answered, it stored the account's nonce in
\* currentNonce (data.nonce || 0), and it swallows its errors.  The
\* transaction takes currentNonce + 1, is signed and posted to /send-tx
NonceRefreshed(s, answered) ==
  /\ sends[s].pc = "refreshNonce"
  /\ LET refreshed == IF answered THEN chainNonce ELSE currentNonce
     IN SendBecomesWith(s, [sends[s] EXCEPT !.pc = "post", !.txNonce = refreshed + 1],
                        refreshed, chainNonce)

\* the POST returned: without a hash, or with an error, the send fails;
\* with one, currentNonce takes the transaction's nonce and
\* waitForOctraConfirmation starts by reading the epoch.  The node accepts
\* the account's next nonce only, and counts the transaction from then on.
TxPosted(s, accepted) ==
  /\ sends[s].pc = "post"
  /\ accepted => sends[s].txNonce = chainNonce + 1
  /\ IF accepted
     THEN SendBecomesWith(s, [sends[s] EXCEPT !.pc = "status"], sends[s].txNonce,
                          sends[s].txNonce)
     ELSE SendBecomes(s, Returned(sends[s], FALSE))

\* the initial /status request returned, with an epoch or without; startTime
\* was taken, the loop condition is evaluated
InitialEpochRead(s, known) ==
  /\ sends[s].pc = "status"
  /\ SendBecomes(s, [sends[s] EXCEPT !.pc = "poll", !.initialEpoch = known, !.elapsed = 0])

\* one pass of the loop body up to its sleep: the transaction status, and
\* with a known initial epoch the current epoch and the final status
Polled(s, status, epochChanged, finalStatus) ==
  /\ sends[s].pc = "poll"
  /\ IF status = "confirmed" THEN SendBecomes(s, Returned(sends[s], TRUE))
     ELSE IF status = "failed" THEN SendBecomes(s, Returned(sends[s], FALSE))
     ELSE IF sends[s].initialEpoch /\ epochChanged
     THEN SendBecomes(s, Returned(sends[s], finalStatus = "confirmed"))
     ELSE SendBecomes(s, [sends[s] EXCEPT !.pc = "sleep"])

\* the poll interval has passed: the loop condition
\* Date.now() - startTime < timeoutMs is evaluated again
Slept(s) ==
  /\ sends[s].pc = "sleep"
  /\ LET elapsed == sends[s].elapsed + POLL_INTERVAL_MS
     IN IF elapsed < CONFIRM_TIMEOUT_MS
        THEN SendBecomes(s, [sends[s] EXCEPT !.pc = "poll", !.elapsed = elapsed])
        ELSE SendBecomes(s, Returned([sends[s] EXCEPT !.elapsed = elapsed], FALSE))

\* sendETH(toAddress, amountEth): the address check, then the balance is awaited
SendETH(s, toAddress) ==
  /\ sends[s].pc = "idle"
  /\ LET send == [Idle EXCEPT !.kind = "ETH"]
     IN IF toAddress \notin EvmAddresses
        THEN SendBecomes(s, Returned(send, FALSE))
        ELSE SendBecomes(s, [send EXCEPT !.pc = "getBalance"])

\* provider.getBalance returned (or threw)
BalanceRead(s, enough) ==
  /\ sends[s].pc = "getBalance"
  /\ IF enough THEN SendBecomes(s, [sends[s] EXCEPT !.pc = "sendTransaction"])
     ELSE SendBecomes(s, Returned(sends[s], FALSE))

\* wallet.sendTransaction returned (or threw); tx.wait() is awaited
TxSubmitted(s, accepted) ==
  /\ sends[s].pc = "sendTransaction"
  /\ IF accepted THEN SendBecomes(s, [sends[s] EXCEPT !.pc = "wait"])
     ELSE SendBecomes(s, Returned(sends[s], FALSE))

\* the transaction was mined: tx.wait() resolves with its receipt, or
\* rejects for a reverted one
ReceiptArrived(s, status) ==
  /\ sends[s].pc = "wait"
  /\ SendBecomes(s, Returned(sends[s], status = 1))

\* the caller takes the result
SendReturns(s) ==
  /\ sends[s].pc = "returned"
  /\ SendBecomes(s, Idle)

\* what a status request may report
TxStatuses == {"pending", "confirmed", "failed"}

\* the steps of a send that the solver's process takes by itself: an HTTP
\* request answered or failed, a timer fired
SendStep(s) ==
  \/ \E answered \in BOOLEAN : NonceRefreshed(s, answered)
  \/ \E accepted \in BOOLEAN : TxPosted(s, accepted)
  \/ \E known \in BOOLEAN : InitialEpochRead(s, known)
  \/ \E status \in TxStatuses, epochChanged \in BOOLEAN, finalStatus \in TxStatuses :
       Polled(s, status, epochChanged, finalStatus)
  \/ Slept(s)
  \/ \E enough \in BOOLEAN : BalanceRead(s, enough)
  \/ \E accepted \in BOOLEAN : TxSubmitted(s, accepted)

SendNext ==
  \E s \in SendIds :
    \/ \E toAddress \in OctraAddresses \cup EvmAddresses : SendOCT(s, toAddress)
    \/ \E toAddress \in OctraAddresses \cup EvmAddresses : SendETH(s, toAddress)
    \/ SendStep(s)
    \/ \E status \in {0, 1} : ReceiptArrived(s, status)
    \/ SendReturns(s)

\* Requests to the RPC nodes are answered or fail and timers fire, so a
\* send's own steps are taken.  Whether and when the chain mines a
\* transaction is not forced, nor is the start of a send.
SendFairness == \A s \in SendIds : WF_vars(SendStep(s)) /\ WF_vars(SendReturns(s))

SendSpec == Init /\ [][SendNext]_vars /\ SendFairness

\* --------------------------------------------------------------------------
\* The envelope verifiers called on their own (crypto.ts, octra.ts)
\* --------------------------------------------------------------------------
PayloadFields ==
  {"version", "intentType", "fromAsset", "toAsset", "amountIn", "minAmountOut",
   "targetChain", "targetAddress", "expiry", "nonce"}
NumberFields == {"version", "amountIn", "minAmountOut", "expiry"}

\* the payloads a client seals
BasePayloads == {OctPayload(1140, 2, "n1"), EthPayload(1140, 2, "n1")}

\* the payload with field f given another value of its declared type
Altered(p, f) ==
  [p EXCEPT ![f] =
     CASE f = "version" -> 2
       [] f = "intentType" -> "transfer"
       [] f = "fromAsset" -> p.toAsset
       [] f = "toAsset" -> p.fromAsset
       [] f = "amountIn" -> 9999
       [] f = "minAmountOut" -> 0
       [] f = "targetChain" -> "other_chain"
       [] f = "targetAddress" -> "0xevil"
       [] f = "expiry" -> 3
       [] f = "nonce" -> "n9"]

\* the payload without field f, and with a value of the other type in it
Lacking(p, f) == [p EXCEPT ![f] = IF f \in NumberFields THEN Null ELSE Undefined]
Mistyped(p, f) == [p EXCEPT ![f] = IF f \in NumberFields THEN StringValue ELSE NumberValue]

Payloads ==
  UNION {{p} \cup {Altered(p, f) : f \in PayloadFields}
             \cup {Lacking(p, f) : f \in PayloadFields}
             \cup {Mistyped(p, f) : f \in PayloadFields} : p \in BasePayloads}

\* Envelopes a transaction may carry: a payload under its own hash, under the
\* hash of the payload the client sealed, or under no hash; a text that does
\* not decode; no text.
Envelopes ==
  {Sealed(p) : p \in Payloads}
    \cup {[raw |-> "json", payload |-> p, hash |-> hashPayload(b)] :
            p \in Payloads, b \in BasePayloads}
    \cup {Legacy(p) : p \in Payloads}
    \cup {Unparseable, EmptyInput}

VerifierInit ==
  /\ SolverInit
  /\ envelope \in Envelopes
  /\ verified = Unverified

solverVars ==
  <<now, intents, nonces, reserves, volumeHistory, procs, sweeps, tasks, payouts, response>>

\* parseAndVerifyOctraEnvelope(message)
VerifyOctraEnvelope ==
  /\ verified = Unverified
  /\ verified' = [by |-> "parseAndVerifyOctraEnvelope",
                  result |-> parseAndVerifyOctraEnvelope(envelope)]
  /\ UNCHANGED <<envelope, solverVars, priceVars, sendVars>>

\* parseAndVerifyEvmEnvelope(tx.input)
VerifyEvmEnvelope ==
  /\ verified = Unverified
  /\ verified' = [by |-> "parseAndVerifyEvmEnvelope",
                  result |-> parseAndVerifyEvmEnvelope(envelope)]
  /\ UNCHANGED <<envelope, solverVars, priceVars, sendVars>>

\* parseIntentPayload(tx.message): the payload, or null
ParseOctraMessage ==
  /\ verified = Unverified
  /\ verified' = [by |-> "parseIntentPayload",
                  result |-> LET payload == parseIntentPayload(envelope)
                             IN IF payload = NoPayload
                                THEN [valid |-> FALSE, error |-> ""]
                                ELSE [valid |-> TRUE, error |-> "", payload |-> payload]]
  /\ UNCHANGED <<envelope, solverVars, priceVars, sendVars>>

VerifierNext ==
  \/ VerifyOctraEnvelope
  \/ VerifyEvmEnvelope
  \/ ParseOctraMessage

VerifierSpec == VerifierInit /\ [][VerifierNext]_vars

\* every field of the payload is present with its declared type
WellTyped(p) ==
  \A f \in PayloadFields : IF f \in NumberFields THEN IsNumber(p[f]) ELSE IsString(p[f])

\* one of the two hash verifiers of crypto.ts returned
HashVerified ==
  verified.by \in {"parseAndVerifyOctraEnvelope", "parseAndVerifyEvmEnvelope"}

\* C15: for both envelope verifiers, an envelope that declares a hash over a
\* payload with all its fields is valid exactly when the hash of the payload
\* it carries equals the declared hash; when it does not, the result is
\* valid=false with the tamper error and without payload.
C15_HashDecidesValidity ==
  (HashVerified /\ envelope.raw = "json" /\ HasHash(envelope.hash)
     /\ WellTyped(envelope.payload))
    => /\ verified.result.valid <=> (hashPayload(envelope.payload) = envelope.hash)
       /\ ~verified.result.valid
            => /\ verified.result.error = "Payload hash mismatch - data may have been tampered"
               /\ "payload" \notin DOMAIN verified.result

\* the verifier that returned, applied to another envelope
VerifyAs(by, e) ==
  IF by = "parseAndVerifyOctraEnvelope" THEN parseAndVerifyOctraEnvelope(e)
  ELSE parseAndVerifyEvmEnvelope(e)

\* C16: both envelope verifiers accept an envelope that declares no hash and
\* carries all its fields, and return its payload; and an envelope they
\* accept is still accepted once its hash is removed.
C16_NoHashAccepted ==
  HashVerified
    => /\ (envelope.raw = "json" /\ ~HasHash(envelope.hash) /\ WellTyped(envelope.payload))
            => /\ verified.result.valid
               /\ "payload" \in DOMAIN verified.result
       /\ verified.result.valid
            => VerifyAs(verified.by, [envelope EXCEPT !.hash = NoHash]).valid

\* an altered payload without hash, accepted by the EVM verifier
C16_Witness ==
  /\ verified.by = "parseAndVerifyEvmEnvelope"
  /\ envelope = Legacy(Altered(EthPayload(1140, 2, "n1"), "minAmountOut"))
  /\ verified.result.valid
  /\ verified.result.payload.minAmountOut = 0

\* the fields the verifier is to require
RequiredFields ==
  {"fromAsset", "toAsset", "amountIn", "targetChain", "targetAddress", "expiry", "nonce"}

\* C17: an envelope that lacks one of the required fields (asset
\* identifiers, amount, target chain, destination address, expiry, nonce) or
\* carries a value of the wrong type in it is refused by every verifier, on
\* the Octra message path and on the EVM tx.input path: valid=false and no
\* payload.
C17_MissingFieldRejected ==
  (verified # Unverified /\ envelope.raw = "json"
     /\ \E f \in RequiredFields :
          envelope.payload \in {Lacking(b, f) : b \in BasePayloads}
                                 \cup {Mistyped(b, f) : b \in BasePayloads})
    => /\ ~verified.result.valid
       /\ "payload" \notin DOMAIN verified.result

\* the TWAP of the data points held
Twap == calculateTWAP(twapDataPoints, spotPrice)

\* C18: getRate returns 0.7 x EMA + 0.3 x TWAP while the circuit breaker is
\* inactive and the TWAP alone while it is active (the TWAP being taken after
\* getRate has refreshed the data points).
C18_RateBlendOrTwap ==
  [][GetRate => rate' = IF circuitBreakerActive THEN Twap'
                        ELSE (7 * emaPrice + 3 * Twap') \div 10]_vars

\* getRate returned the TWAP, which differs from the blend, with the breaker active
C18_Witness ==
  /\ circuitBreakerActive
  /\ rate # Null
  /\ rate = Twap
  /\ rate # (7 * emaPrice + 3 * Twap) \div 10

\* C19: after a swap that tripped the circuit breaker, getRate returns the
\* EMA of before that swap as long as the breaker is active, and the blended
\* price once the reset timer has fired.
C19_RateIsPreTradeEmaInCooldown ==
  [][GetRate => rate' = IF circuitBreakerActive THEN preTradeEma
                        ELSE (7 * emaPrice + 3 * Twap') \div 10]_vars

\* C20: after any sequence of swaps k is the product the oracle was
\* constructed with, and octReserve x ethReserve equals k up to the rounding
\* of the last division or square root (less than one unit of each reserve).
C20_ConstantProduct ==
  /\ reserves.k = VIRTUAL_OCT_RESERVE * VIRTUAL_ETH_RESERVE
  /\ reserves.octReserve * reserves.ethReserve <= reserves.k
  /\ reserves.k - reserves.octReserve * reserves.ethReserve
       <= reserves.octReserve + reserves.ethReserve

\* the reserves were rewritten by the bounds clamp after a tripped swap
C20_Witness ==
  /\ Len(volumeHistory) = MaxSwaps
  /\ preTradeEma # Null
  /\ spotPrice = minRate
  /\ reserves.octReserve = sqrt((reserves.k \div minRate) * PRICE_SCALE)
  /\ reserves.ethReserve = sqrt((reserves.k \div PRICE_SCALE) * minRate)

\* C21: after every recordSwap both the spot price and the EMA lie within
\* [minRate, maxRate].
C21_PricesWithinBounds ==
  Len(volumeHistory) > 0 =>
    /\ minRate <= spotPrice /\ spotPrice <= maxRate
    /\ minRate <= emaPrice /\ emaPrice <= maxRate

\* a swap moved the reserves' price above maxRate and the spot price was
\* put back on the bound
C21_Witness ==
  /\ Len(volumeHistory) > 0
  /\ spotPrice = maxRate
  /\ reserves.octReserve = sqrt((reserves.k \div maxRate) * PRICE_SCALE)

\* the net output of the constant-product formula for the call last returned
\* from: the output reserve less k / (input reserve + amountIn), less the fee
NetOutput ==
  LET inReserve == IF returned.call = "calculateEthOut" THEN reserves.octReserve
                   ELSE reserves.ethReserve
      outReserve == IF returned.call = "calculateEthOut" THEN reserves.ethReserve
                    ELSE reserves.octReserve
      gross == outReserve - reserves.k \div (inReserve + returned.amountIn)
  IN gross - (gross * returned.feeBps) \div 10000

\* a quote function has returned
Quoted == returned.call \in {"calculateEthOut", "calculateOctOut"}

\* C22: calculateEthOut and calculateOctOut never return a negative amount,
\* for every amountIn >= 0, every fee of 0..10000 basis points and every
\* reachable reserve state, and return 0 whenever the constant-product
\* formula gives a non-positive net output.
C22_QuoteNeverNegative ==
  (Quoted /\ returned.amountIn >= 0 /\ returned.feeBps \in 0..10000) =>
    /\ returned.value >= 0
    /\ NetOutput <= 0 => returned.value = 0

\* the formula gave a negative output (reserves rounded below the curve) and
\* calculateEthOut returned 0
C22_Witness ==
  /\ returned.call = "calculateEthOut"
  /\ NetOutput < 0
  /\ returned.value = 0

\* the quote function last returned from, on another amount
QuoteOf(amount) ==
  IF returned.call = "calculateEthOut" THEN calculateEthOut(reserves, amount, returned.feeBps)
  ELSE calculateOctOut(reserves, amount, returned.feeBps)

\* C23: for a fixed reserve state and fee the quote is non-decreasing in
\* amountIn and, for every amountIn > 0, strictly less than amountIn times the
\* spot price implied by the reserves (output reserve / input reserve).
C23_QuoteMonotoneBelowSpot ==
  Quoted =>
    /\ \A amount \in QuoteAmounts :
         amount <= returned.amountIn => QuoteOf(amount) <= returned.value
    /\ returned.amountIn > 0 =>
         IF returned.call = "calculateEthOut"
         THEN returned.value * reserves.octReserve < returned.amountIn * reserves.ethReserve
         ELSE returned.value * reserves.ethReserve < returned.amountIn * reserves.octReserve

\* C24: getHistory(limit) returns at most limit records, the most recent
\* ones, ordered most-recent-first, for every limit >= 0 (0 and limits above
\* the number of records included).
C24_HistoryNewestFirst ==
  (returned.call = "getHistory" /\ returned.limit >= 0) =>
    /\ Len(returned.records) <= returned.limit
    /\ Len(returned.records) = IF returned.limit <= Len(priceHistory) THEN returned.limit
                             ELSE Len(priceHistory)
    /\ \A i \in 1..Len(returned.records) :
         returned.records[i] = priceHistory[Len(priceHistory) - i + 1]

\* C25: under any interleaving of two submissions that carry the same
\* nonce on different deposits, at most one intent with that nonce is
\* stored: the store refuses the second.
C25_OneIntentPerNonce ==
  \A i, j \in DOMAIN intents :
    (i # j /\ intents[i].sourceTxHash # intents[j].sourceTxHash)
      => intents[i].payload.nonce # intents[j].payload.nonce

\* the payouts in flight that draw on the balance of one asset
InFlightOn(direction) == {task \in BagToSet(tasks) : task.direction = direction}

\* C26: the liquidity check and the dispatch are not atomic.  A submission
\* whose probe reports a balance of at least 1.1 x its amountOut starts its
\* dispatch whatever is already in flight, so two settlements can both pass
\* the check against one balance that covers only one of the two payouts.
C26_CheckIgnoresDispatchesInFlight ==
  [][\A proc \in BagToSet(procs), balance \in Balances :
       (/\ SubmitProbed(proc, balance)
        /\ hasLiquidity(balance, proc.out)
        /\ now <= NewIntent(proc.h, TRUE).expiry)
         => BagCardinality(tasks') = BagCardinality(tasks) + 1]_vars

\* two payouts of different intents are in flight on the same asset, none
\* has been paid yet, and a balance passes the buffered check of each while
\* it is less than their sum
C26_Witness ==
  \E direction \in {"OCT_TO_ETH", "ETH_TO_OCT"} :
    \E t1, t2 \in InFlightOn(direction) :
      /\ t1.intentId # t2.intentId
      /\ intents[t1.intentId].sourceTxHash # intents[t2.intentId].sourceTxHash
      /\ payouts = <<>>
      /\ \E balance \in Balances :
           /\ hasLiquidity(balance, t1.out)
           /\ hasLiquidity(balance, t2.out)
           /\ balance < t1.out + t2.out

\* C27: after a recordSwap trips the breaker at time t,
\* circuitBreakerActive stays true until t + cooldown: while the reset timer
\* of some trip is still ahead, the flag is set, whatever timers of earlier
\* trips have fired.
C27_ActiveThroughCooldown ==
  (\E due \in BagToSet(timers) : now < due) => circuitBreakerActive

\* C28: the reserves, the spot price, the EMA and the TWAP window are
\* changed only by recordSwap: calculateEthOut, calculateOctOut,
\* calculatePriceImpact, getRate, getInverseRate, getPrices, getStats and
\* getHistory leave all of them unchanged.
C28_GettersChangeNothing ==
  [][Getter => UNCHANGED <<reserves, spotPrice, emaPrice, twapDataPoints>>]_vars

\* a send has started and not yet returned
Sending(s) == sends[s].pc \notin {"idle", "returned"}

\* C29: every started dispatch (sendOCT with its confirmation wait, sendETH
\* with its receipt wait) eventually returns control, even if the chain
\* never confirms, and reports success = false when the confirmation was not
\* observed within the timeout.
C29_SendEventuallyReturns ==
  /\ \A s \in SendIds : Sending(s) ~> sends[s].pc = "returned"
  /\ [](\A s \in SendIds :
         (sends[s].pc = "returned" /\ sends[s].elapsed >= CONFIRM_TIMEOUT_MS)
           => ~sends[s].success)

\* the columns of an intent written at creation only (the intentId is the
\* row's place in the table)
CreationFields ==
  {"direction", "sourceAddress", "sourceTxHash", "amountIn", "targetAddress",
   "minAmountOut", "expiry", "payload"}

\* C30: after creation an intent's intentId, direction, sourceAddress,
\* sourceTxHash, amountIn, targetAddress, minAmountOut, expiry and payload
\* never change: every later update changes only status, targetTxHash,
\* amountOut, fulfilledAt and error.
C30_CreationFieldsNeverChange ==
  [][\A id \in DOMAIN intents :
       /\ id \in DOMAIN intents'
       /\ \A f \in CreationFields : intents'[id][f] = intents[id][f]]_vars

\* an intent was updated to FULFILLED after time had passed and still
\* carries what its deposit had at creation
C30_Witness ==
  \E id \in DOMAIN intents :
    /\ intents[id].status = "FULFILLED"
    /\ intents[id].targetTxHash # Null
    /\ intents[id].fulfilledAt > 1
    /\ \A f \in CreationFields :
         intents[id][f] = NewIntent(intents[id].sourceTxHash, FALSE)[f]

Persisted(history) ==
  [i \in 1..Len(history) |-> [rate |-> history[i].rate, timestamp |-> history[i].timestamp]]

C33_FulfilledAtLeastMinimum ==
  \A id \in DOMAIN intents :
    intents[id].status = "FULFILLED" => intents[id].amountOut >= intents[id].minAmountOut

\* C34: in both directions the amount handed to oracle.recordSwap on
\* fulfilment is the trade's input amount in the input asset's unit: on the
\* step that confirms a payout, the reserve of the intent's input asset (OCT
\* for OCT_TO_ETH, ETH for ETH_TO_OCT) grows by exactly the intent's amountIn.
C34_SwapRecordsInput ==
  [][Len(payouts') > Len(payouts) =>
       LET intent == intents[payouts'[Len(payouts')].intentId]
       IN IF intent.direction = "OCT_TO_ETH"
          THEN reserves'.octReserve = reserves.octReserve + intent.amountIn
          ELSE reserves'.ethReserve = reserves.ethReserve + intent.amountIn]_vars

\* C35: after every recordSwap, one that triggers the circuit breaker
\* included, the stored spotPrice equals ethReserve / octReserve of the
\* stored reserves (up to the rounding of the reserves to whole units, which
\* moves the quotient by less than 2 / PRICE_SCALE).
C35_SpotMatchesReserves ==
  Len(volumeHistory) > 0 =>
    /\ spotPrice - calculateSpotPrice(reserves) <= 2
    /\ calculateSpotPrice(reserves) - spotPrice <= 2

\* C36: the effective rate returned by getRate lies within
\* [minRate, maxRate], in normal operation and while the circuit breaker is
\* active, after any sequence of recordSwap calls.
C36_RateWithinBounds ==
  rate # Null => minRate <= rate /\ rate <= maxRate

\* this step records a swap
SwapRecorded == volumeHistory' # volumeHistory

\* the trade recorded by this step moves the price of the reserves, before
\* any bound is applied, by no more than maxPriceChangePercent
SmallTrade ==
  \E direction \in {"OCT_TO_ETH", "ETH_TO_OCT"}, amount \in SwapAmounts :
    /\ volumeHistory' = Append(volumeHistory, SwapVolume(reserves, direction, amount))
    /\ ~ExceedsMaxChange(calculateSpotPrice(SwapReserves(reserves, direction, amount)),
                         calculateSpotPrice(reserves))

\* C37: a recordSwap whose own trade moves the reserve-implied price
\* (ethReserve / octReserve before the trade against after it) by no more than
\* maxPriceChangePercent does not activate the circuit breaker, in every
\* reachable state of the oracle, those following an earlier trigger included.
C37_SmallTradeNeverTrips ==
  [][(SwapRecorded /\ SmallTrade /\ ~circuitBreakerActive) => ~circuitBreakerActive']_vars

\* the intent is stored and neither FULFILLED nor EXPIRED
Unsettled(id) == HasStatus(id, "OPEN") \/ HasStatus(id, "PENDING")

\* C38: every stored intent eventually reaches FULFILLED or EXPIRED.  With
\* sweep cycles running and the clock advancing past its expiry (an expiry
\* the clock of the model can pass), no intent stays OPEN or PENDING forever,
\* whatever the balance probes report and whether its payout dispatches
\* fail, succeed or never return.
C38_EveryIntentSettles ==
  \A id \in IntentIds :
    (Unsettled(id) /\ intents[id].expiry < MaxTime)
      ~> (HasStatus(id, "FULFILLED") \/ HasStatus(id, "EXPIRED"))

\* an intent whose dispatch is still in flight was set EXPIRED by a sweep
\* cycle after its expiry, with no payout sent
C38_Witness ==
  \E id \in DOMAIN intents :
    /\ HasStatus(id, "EXPIRED")
    /\ now > intents[id].expiry
    /\ InFlight(id)
    /\ PayoutsOf(id) = {}
    /\ sweeps = EmptyBag

\* the sendOCT call in place s has signed its transaction and not returned
Signed(s) == sends[s].kind = "OCT" /\ sends[s].pc \in {"post", "status", "poll", "sleep"}

\* C39: two overlapping sendOCT calls never sign with the same account
\* nonce: the nonce a call takes after its refresh of the shared
\* currentNonce is one no other call in flight uses.
C39_NoncesDistinct ==
  \A s, o \in SendIds : (s # o /\ Signed(s) /\ Signed(o)) => sends[s].txNonce # sends[o].txNonce

====
